---- MODULE Spec2Model ----
(***************************************************************************)
(* Football Game Tracker (rjwdata/football): src/main.py and               *)
(* src/pages/2_Personnel_Explorer.py.                                      *)
(*                                                                         *)
(* Text is a sequence of one-character strings, so that lower(), title(),  *)
(* strip(), contains() and the CSV formatting and parsing are computed     *)
(* character by character.                                                 *)
(***************************************************************************)
EXTENDS Integers, Sequences, FiniteSets, TLC

VARIABLES
    USE_GOOGLE_SHEETS,      \* the backend switch of main.py, line 15
    file,                   \* plays.csv: whether it exists, and its rows of text cells
    pc,                     \* where the script run is: "idle", or "constructed" (line 104 done)
    fatal,                  \* the exception that ended the last script run, or "none"
    page,                   \* the page the last script run rendered
    df,                     \* the records that run loaded and cleaned (lines 134-141)
    wrote,                  \* what that run wrote: "none", "append_row" or "overwrite"
    row,                    \* the row that run handed to append_row
    report,                 \* the metrics that run displayed
    fn, args, ret,          \* a call of one of the helper functions and its result
    nRun, nPass, metrics    \* a group of plays handed to the aggregation, and its report

storeVars == <<USE_GOOGLE_SHEETS, file, pc, fatal, page, df, wrote, row, report>>
fnVars == <<fn, args, ret>>
aggVars == <<nRun, nPass, metrics>>
vars == <<storeVars, fnVars, aggVars>>

(***************************************************************************)
(* Bounds                                                                  *)
(***************************************************************************)
\* numbers of yards are counted in 1/Scale of a yard, so that 2.5 yards exists
Scale == 2
Yards(n) == n * Scale
\* largest distance and gain (in yards) handed to compute_success
MaxYards == 6
\* largest collection handed to explosive_mask
MaxDf == 2
\* largest group of plays handed to the aggregation
MaxGroup == 80
\* most rows the data file holds
MaxRows == 2

(***************************************************************************)
(* Text helpers: Python str methods                                        *)
(***************************************************************************)
UpperChars == <<"A","B","C","D","E","F","G","H","I","J","K","L","M",
                "N","O","P","Q","R","S","T","U","V","W","X","Y","Z">>
LowerChars == <<"a","b","c","d","e","f","g","h","i","j","k","l","m",
                "n","o","p","q","r","s","t","u","v","w","x","y","z">>
DigitChars == <<"0","1","2","3","4","5","6","7","8","9">>

Range(s) == { s[i] : i \in DOMAIN s }
IndexOf(s, c) == CHOOSE i \in DOMAIN s : s[i] = c

IsUpper(c) == c \in Range(UpperChars)
IsLower(c) == c \in Range(LowerChars)
IsCased(c) == IsUpper(c) \/ IsLower(c)
IsDigit(c) == c \in Range(DigitChars)
IsSpace(c) == c = " "

lower_char(c) == IF IsUpper(c) THEN LowerChars[IndexOf(UpperChars, c)] ELSE c
upper_char(c) == IF IsLower(c) THEN UpperChars[IndexOf(LowerChars, c)] ELSE c

\* str.lower()
lower(s) == [i \in DOMAIN s |-> lower_char(s[i])]

\* str.title(): a cased character is upper-cased when the one before it is not
\* cased (or it is the first), and lower-cased otherwise
title(s) ==
    [i \in DOMAIN s |->
        IF i > 1 /\ IsCased(s[i - 1]) THEN lower_char(s[i]) ELSE upper_char(s[i])]

RECURSIVE lstrip(_)
lstrip(s) == IF s # <<>> /\ IsSpace(Head(s)) THEN lstrip(Tail(s)) ELSE s
RECURSIVE rstrip(_)
rstrip(s) ==
    IF s # <<>> /\ IsSpace(s[Len(s)]) THEN rstrip(SubSeq(s, 1, Len(s) - 1)) ELSE s
\* str.strip()
strip(s) == rstrip(lstrip(s))

\* pat occurs in s as a substring
Contains(s, pat) ==
    \E i \in 1..(Len(s) - Len(pat) + 1) : SubSeq(s, i, i + Len(pat) - 1) = pat

\* int(c) of a one-character string
DigitVal(c) == IndexOf(DigitChars, c) - 1

\* the outcome of a Python call: a returned value, or the exception raised
Returned(v) == [raised |-> "none", value |-> v]
Raised(e) == [raised |-> e]
\* a call not yet made
Pending == [raised |-> "pending"]

\* no helper call and no group of plays under way
FnIdle == fn = "none" /\ args = <<>> /\ ret = Pending
AggIdle == nRun = 0 /\ nPass = 0 /\ metrics = "none"

(***************************************************************************)
(* IEEE-754 binary64 arithmetic, as Python float and numpy.float64 do it.  *)
(* A positive float is [e, m]: m is the significand, Mantissa bits, most   *)
(* significant first, m[1] = 1, and the value is 0.m[1]m[2]... * 2^e.      *)
(* Zero is the float with the empty significand.                           *)
(***************************************************************************)
Mantissa == 53
FZero == [e |-> 0, m |-> <<>>]

Zeros(k) == [i \in 1..(IF k > 0 THEN k ELSE 0) |-> 0]
AnyOne(bits) == \E i \in DOMAIN bits : bits[i] = 1

\* the number a bit sequence writes (at most 30 bits)
RECURSIVE BitsToInt(_)
BitsToInt(bits) ==
    IF bits = <<>> THEN 0
    ELSE IF Len(bits) = 1 THEN bits[1]
    ELSE LET h == Len(bits) \div 2
         IN  BitsToInt(SubSeq(bits, 1, h)) * 2^(Len(bits) - h)
               + BitsToInt(SubSeq(bits, h + 1, Len(bits)))

\* the last w bits of v
IntToBits(v, w) == [i \in 1..w |-> (v \div 2^(w - i)) % 2]
\* the number of bits of v (v < 2^30)
BitLen(v) == CHOOSE w \in 0..30 : v < 2^w /\ (w = 0 \/ v >= 2^(w - 1))

\* bits + 1, one bit longer when the carry runs out of the top
Increment(bits) ==
    LET zeroAt == { i \in DOMAIN bits : bits[i] = 0 }
    IN  IF zeroAt = {} THEN <<1>> \o Zeros(Len(bits))
        ELSE LET j == CHOOSE i \in zeroAt : \A k \in zeroAt : k <= i
             IN  [i \in DOMAIN bits |-> IF i < j THEN bits[i] ELSE IF i = j THEN 1 ELSE 0]

\* Round to nearest, ties to even: the exact value is 0.bits * 2^e (bits[1] = 1)
\* plus, when sticky, something below the last bit
RoundNearestEven(bits, sticky, e) ==
    LET padded == bits \o Zeros(Mantissa + 1 - Len(bits))
        kept   == SubSeq(padded, 1, Mantissa)
        guard  == padded[Mantissa + 1]
        rest   == sticky \/ AnyOne(SubSeq(padded, Mantissa + 2, Len(padded)))
        up     == guard = 1 /\ (rest \/ kept[Mantissa] = 1)
        inc    == Increment(kept)
    IN  IF ~up THEN [e |-> e, m |-> kept]
        ELSE IF Len(inc) > Mantissa THEN [e |-> e + 1, m |-> SubSeq(inc, 1, Mantissa)]
        ELSE [e |-> e, m |-> inc]

\* 2^k mod den
RECURSIVE Pow2Mod(_, _)
Pow2Mod(k, den) ==
    IF k = 0 THEN 1 % den
    ELSE IF k % 2 = 1 THEN (2 * Pow2Mod(k - 1, den)) % den
    ELSE LET h == Pow2Mod(k \div 2, den) IN (h * h) % den

\* what is left of num after k bits of the long division num/den (num < den)
DivRem(num, den, k) == (num * Pow2Mod(k, den)) % den
\* the first k bits of num/den after the binary point (num < den)
DivBits(num, den, k) ==
    [i \in 1..k |-> IF 2 * DivRem(num, den, i - 1) >= den THEN 1 ELSE 0]

\* num/den scaled by a power of two into [1/2, 1)
RECURSIVE Normalise(_, _, _)
Normalise(num, den, e) ==
    IF num >= den THEN Normalise(num, 2 * den, e + 1)
    ELSE IF 2 * num < den THEN Normalise(2 * num, den, e - 1)
    ELSE [num |-> num, den |-> den, e |-> e]

\* float(num) / float(den) for small integers num >= 0, den > 0
FDiv(num, den) ==
    IF num = 0 THEN FZero
    ELSE LET n == Normalise(num, den, 0)
         IN  RoundNearestEven(DivBits(n.num, n.den, Mantissa + 1),
                              DivRem(n.num, n.den, Mantissa + 1) # 0, n.e)

\* bits * k + carry for a small integer k, exactly, 16 bits at a time from the
\* right; the carry out of the top is written in front
RECURSIVE MulBits(_, _, _)
MulBits(bits, k, carry) ==
    IF bits = <<>> THEN IntToBits(carry, BitLen(carry))
    ELSE LET w == IF Len(bits) >= 16 THEN 16 ELSE Len(bits)
             t == BitsToInt(SubSeq(bits, Len(bits) - w + 1, Len(bits))) * k + carry
         IN  MulBits(SubSeq(bits, 1, Len(bits) - w), k, t \div 2^w)
               \o IntToBits(t, w)

\* x * k exactly, for a small integer k >= 1: an unrounded [e, m]
ExactMul(x, k) ==
    LET p == MulBits(x.m, k, 0)
    IN  [e |-> x.e + (Len(p) - Len(x.m)), m |-> p]

\* x * float(k)
FMul(x, k) ==
    IF x.m = <<>> THEN FZero
    ELSE LET p == ExactMul(x, k) IN RoundNearestEven(p.m, FALSE, p.e)

\* the integer nearest to the exact value of x (x >= 0, finite significand of any
\* length), ties to even
RoundHalfEven(x) ==
    IF x.m = <<>> THEN 0
    ELSE LET bits  == IF x.e < 0 THEN Zeros(-x.e) \o x.m
                      ELSE x.m \o Zeros(x.e - Len(x.m))
             split == IF x.e < 0 THEN 0 ELSE x.e
             whole == BitsToInt(SubSeq(bits, 1, split))
             frac  == SubSeq(bits, split + 1, Len(bits))
             half  == frac # <<>> /\ frac[1] = 1
             above == half /\ AnyOne(Tail(frac))
         IN  IF above \/ (half /\ whole % 2 = 1) THEN whole + 1 ELSE whole

\* format(x, ".1f"): the decimal with one digit nearest to the exact value of x,
\* ties to even; the result in tenths
Format1f(x) == IF x.m = <<>> THEN 0 ELSE RoundHalfEven(ExactMul(x, 10))

\* round(x, 1) of a numpy.float64: rint(x * 10.0) / 10.0; the result in tenths
NumpyRound1(x) == RoundHalfEven(FMul(x, 10))

(***************************************************************************)
(* main.py helpers                                                         *)
(***************************************************************************)
\* compute_success with the 2nd-down threshold floored (variant)
compute_success_floor(down, distance, gained) ==
    IF down = 1 THEN gained >= 4 * Scale
    ELSE IF down = 2 THEN gained >= (distance \div (2 * Scale)) * Scale
    ELSE gained >= distance

\* compute_success(down, distance, gained); distance and gained in 1/Scale yards.
\* gained >= distance / 2.0 is exact in binary floating point: 2*gained >= distance
compute_success(down, distance, gained) ==
    IF down = 1 THEN gained >= 4 * Scale
    ELSE IF down = 2 THEN 2 * gained >= distance
    ELSE gained >= distance

\* pt.str.contains("run|rpo") on the lower-cased play type (lines 118-119, 237)
is_runlike(playType) ==
    LET pt == lower(playType)
    IN  Contains(pt, <<"r","u","n">>) \/ Contains(pt, <<"r","p","o">>)

\* explosive_mask with a strict run threshold (variant)
explosive_mask_strict(frame) ==
    [i \in DOMAIN frame |->
        \/ is_runlike(frame[i].PlayType) /\ frame[i].ResultYards > 10
        \/ ~is_runlike(frame[i].PlayType) /\ frame[i].ResultYards >= 15]

\* explosive_mask(df): one boolean per record of the frame
explosive_mask(frame) ==
    [i \in DOMAIN frame |->
        \/ is_runlike(frame[i].PlayType) /\ frame[i].ResultYards >= 10
        \/ ~is_runlike(frame[i].PlayType) /\ frame[i].ResultYards >= 15]

\* Formation Explorer, lines 293-294: the play type is stripped and title-cased,
\* then str.contains("Run|Rpo")
formation_playtype(playType) == title(strip(playType))
formation_runlike(playType) ==
    LET pt == formation_playtype(playType)
    IN  Contains(pt, <<"R","u","n">>) \/ Contains(pt, <<"R","p","o">>)
\* Formation Explorer, line 303: explosive_mask(sub) on the title-cased sub
formation_explosive_runlike(playType) == is_runlike(formation_playtype(playType))

(***************************************************************************)
(* 2_Personnel_Explorer.py helpers                                         *)
(***************************************************************************)
\* lines 106, 109
personnel_runlike(playType) ==
    LET pt == title(strip(playType))
    IN  Contains(pt, <<"R","u","n">>) \/ Contains(pt, <<"R","p","o">>)

\* lines 118-120: the mask whose mean is the Explosive Rate %
personnel_explosive(frame) ==
    [i \in DOMAIN frame |->
        \/ frame[i].ResultYards >= 10 /\ personnel_runlike(frame[i].PlayType)
        \/ frame[i].ResultYards >= 15 /\ ~personnel_runlike(frame[i].PlayType)]

Max(a, b) == IF a >= b THEN a ELSE b

\* parse_personnel without the clamp (variant)
parse_personnel_noclamp(tag) ==
    LET s0 == strip(tag)
        s  == IF Len(s0) = 1 THEN s0 \o <<"0">> ELSE s0
    IN  IF Len(s) < 2 THEN Raised("IndexError")
        ELSE IF ~IsDigit(s[1]) \/ ~IsDigit(s[2]) THEN Raised("ValueError")
        ELSE Returned([rb |-> DigitVal(s[1]), te |-> DigitVal(s[2]),
                       wr |-> 5 - (DigitVal(s[1]) + DigitVal(s[2]))])

\* parse_personnel(tag): (rb, te, wr), or the exception that s[1] or int() raises
parse_personnel(tag) ==
    LET s0 == strip(tag)
        s  == IF Len(s0) = 1 THEN s0 \o <<"0">> ELSE s0
    IN  IF Len(s) < 2 THEN Raised("IndexError")
        ELSE IF ~IsDigit(s[1]) \/ ~IsDigit(s[2]) THEN Raised("ValueError")
        ELSE LET rb == DigitVal(s[1])
                 te == DigitVal(s[2])
                 wr == 5 - (rb + te)
             IN  Returned([rb |-> rb, te |-> te, wr |-> Max(0, wr)])

(***************************************************************************)
(* The tendency metrics of a group of plays: Run % and Pass %              *)
(***************************************************************************)
\* Series.mean() of a boolean column with k of n true, times 100 (lines 239,
\* 299; Personnel Explorer line 114)
MeanPct(k, n) == FMul(FDiv(k, n), 100)

\* Analytics, lines 236-240: f"{(runlike.mean()*100):.1f}%", in tenths of a percent
analytics_run_pass(runs, passes) ==
    [run  |-> Format1f(MeanPct(runs, runs + passes)),
     pass |-> Format1f(MeanPct(passes, runs + passes))]

\* Formation Explorer, lines 299-300: round(100*runlike.mean(), 1)
formation_run_pass(runs, passes) ==
    [run  |-> NumpyRound1(MeanPct(runs, runs + passes)),
     pass |-> NumpyRound1(MeanPct(passes, runs + passes))]

\* Personnel Explorer, lines 114-115: round(100*run_like.mean(), 1)
personnel_run_pass(runs, passes) ==
    [run  |-> NumpyRound1(MeanPct(runs, runs + passes)),
     pass |-> NumpyRound1(MeanPct(passes, runs + passes))]

\* what the three pages report for a non-empty group
RunPassReport(runs, passes) ==
    [analytics |-> analytics_run_pass(runs, passes),
     formation |-> formation_run_pass(runs, passes),
     personnel |-> personnel_run_pass(runs, passes)]

(***************************************************************************)
(* Inputs of the helper functions                                          *)
(***************************************************************************)
\* st.selectbox("Play Type", ...), line 165
Run == <<"R","u","n">>
Pass == <<"P","a","s","s">>
Screen == <<"S","c","r","e","e","n">>
RPO == <<"R","P","O">>
PlayAction == <<"P","l","a","y"," ","A","c","t","i","o","n">>
SpecialTeams == <<"S","p","e","c","i","a","l"," ","T","e","a","m","s">>
Other == <<"O","t","h","e","r">>
FormPlayTypes == {Run, Pass, Screen, RPO, PlayAction, SpecialTeams, Other}

\* play types as a file edited by hand may hold them
OtherPlayTypes ==
    { <<"r","u","n">>, <<"R","U","N">>, <<"r","p","o">>, <<" ","R","u","n"," ">>,
      <<"Q","B"," ","R","u","n">>, <<"O","u","t","r","u","n">>,
      <<"D","r","a","w">>, <<"n","a","n">> }

Downs == 0..5
Distances == (-Scale)..(MaxYards * Scale)
Gains == (-2 * Scale)..(MaxYards * Scale)
ExplosiveYards == {-1, 9, 10, 14, 15}

RECURSIVE SeqsUpTo(_, _)
SeqsUpTo(S, k) ==
    IF k = 0 THEN {<<>>}
    ELSE LET shorter == SeqsUpTo(S, k - 1)
         IN  shorter \cup { Append(q, x) : q \in shorter, x \in S }

Plays == [PlayType : FormPlayTypes, ResultYards : ExplosiveYards]

Digits == Range(DigitChars)
PersonnelTags ==
    { <<a>> : a \in Digits } \cup { <<a, b>> : a \in Digits, b \in Digits }
    \cup { <<" ", a>> : a \in Digits } \cup { <<a, b, " ">> : a \in Digits, b \in Digits }
    \cup { <<>>, <<"1","1","0">>, <<"1","x">> }

(***************************************************************************)
(* DataFrame cells, and what to_csv writes and read_csv reads              *)
(***************************************************************************)
\* Storage.columns, lines 22-26
Columns == <<"Timestamp", "Game", "Opponent", "TeamSide", "Quarter", "Down", "Distance",
             "YardLine", "Hash", "Formation", "PlayType", "ResultYards", "Success",
             "Notes">>
ColumnSet == Range(Columns)

\* a cell: a Python str, int, float (whole-numbered here), bool, or NaN
StrCell(t) == [kind |-> "str", val |-> t]
IntCell(n) == [kind |-> "int", val |-> n]
FloatCell(n) == [kind |-> "float", val |-> n]
BoolCell(b) == [kind |-> "bool", val |-> b]
NaN == [kind |-> "nan", val |-> 0]

CellEq(a, b) == a.kind = b.kind /\ a.val = b.val
RowEq(a, b) == \A c \in ColumnSet : CellEq(a[c], b[c])
DfEq(a, b) == Len(a) = Len(b) /\ \A i \in DOMAIN a : RowEq(a[i], b[i])

RECURSIVE NatToText(_)
NatToText(n) ==
    IF n < 10 THEN <<DigitChars[n + 1]>>
    ELSE NatToText(n \div 10) \o <<DigitChars[(n % 10) + 1]>>
\* str(n) of an int
IntToText(n) == IF n < 0 THEN <<"-">> \o NatToText(-n) ELSE NatToText(n)

TrueText == <<"T","r","u","e">>
FalseText == <<"F","a","l","s","e">>

\* str(x) of a cell: Series.astype(str)
AsText(cell) ==
    CASE cell.kind = "str" -> cell.val
      [] cell.kind = "int" -> IntToText(cell.val)
      [] cell.kind = "float" -> IntToText(cell.val) \o <<".", "0">>
      [] cell.kind = "bool" -> (IF cell.val THEN TrueText ELSE FalseText)
      [] cell.kind = "nan" -> <<"n","a","n">>

\* DataFrame.to_csv: one cell as text; NaN is written as the empty field
FormatCell(cell) == IF cell.kind = "nan" THEN <<>> ELSE AsText(cell)
to_csv(frame) == [i \in DOMAIN frame |-> [c \in ColumnSet |-> FormatCell(frame[i][c])]]

\* read_csv: the fields read as missing (pandas' default na_values, those that
\* can be typed into the form among them)
NAValues ==
    { <<>>, <<"N","A">>, <<"N","/","A">>, <<"n","/","a">>, <<"N","a","N">>,
      <<"n","a","n">>, <<"n","u","l","l">>, <<"N","U","L","L">>, <<"N","o","n","e">> }

IsNatText(t) == t # <<>> /\ \A i \in DOMAIN t : IsDigit(t[i])
Unsigned(t) == IF t # <<>> /\ t[1] \in {"-", "+"} THEN Tail(t) ELSE t
IsIntText(t) == IsNatText(Unsigned(t))
RECURSIVE NatVal(_)
NatVal(t) ==
    IF t = <<>> THEN 0
    ELSE 10 * NatVal(SubSeq(t, 1, Len(t) - 1)) + DigitVal(t[Len(t)])
IntVal(t) == IF t[1] = "-" THEN -NatVal(Tail(t)) ELSE NatVal(Unsigned(t))

\* a decimal text with a zero fraction, as repr() writes a whole-numbered float;
\* no other decimal text is ever written or typed in this model
DotAt(t) == { i \in DOMAIN t : t[i] = "." }
IsFloatText(t) ==
    /\ Cardinality(DotAt(t)) = 1
    /\ LET k == CHOOSE i \in DotAt(t) : TRUE
       IN  /\ IsIntText(SubSeq(t, 1, k - 1))
           /\ k < Len(t)
           /\ \A i \in (k + 1)..Len(t) : t[i] = "0"
FloatVal(t) == IntVal(SubSeq(t, 1, (CHOOSE i \in DotAt(t) : TRUE) - 1))

IsBoolText(t) ==
    t \in {TrueText, <<"T","R","U","E">>, <<"t","r","u","e">>,
           FalseText, <<"F","A","L","S","E">>, <<"f","a","l","s","e">>}
BoolVal(t) == t \in {TrueText, <<"T","R","U","E">>, <<"t","r","u","e">>}

\* read_csv: the cells of one column, its dtype inferred from all of its fields:
\* int64 when every field is an integer, float64 when every field is a number or
\* missing, bool when every field is a boolean, and otherwise the texts themselves
InferColumn(cells) ==
    LET present == { i \in DOMAIN cells : cells[i] \notin NAValues }
        anyNA   == present # DOMAIN cells
        allInt  == \A i \in present : IsIntText(cells[i])
        allNum  == \A i \in present : IsIntText(cells[i]) \/ IsFloatText(cells[i])
        allBool == \A i \in present : IsBoolText(cells[i])
        num(t)  == IF IsIntText(t) THEN IntVal(t) ELSE FloatVal(t)
    IN  [i \in DOMAIN cells |->
            IF i \notin present THEN NaN
            ELSE IF allInt /\ ~anyNA THEN IntCell(IntVal(cells[i]))
            ELSE IF allNum THEN FloatCell(num(cells[i]))
            ELSE IF allBool THEN BoolCell(BoolVal(cells[i]))
            ELSE StrCell(cells[i])]

read_csv(f) ==
    LET column(c) == InferColumn([i \in DOMAIN f.rows |-> f.rows[i][c]])
    IN  [i \in DOMAIN f.rows |-> [c \in ColumnSet |-> column(c)[i]]]

\* pd.concat([df, new_df]): the frame with one more row. A column whose values
\* are all numbers or NaN, not all of them int, is float64: its ints become floats
concat(frame, newRow) ==
    LET all == Append(frame, newRow)
        numeric(c) == \A i \in DOMAIN all : all[i][c].kind \in {"int", "float", "nan"}
        floats(c)  == \E i \in DOMAIN all : all[i][c].kind \in {"float", "nan"}
    IN  [i \in DOMAIN all |->
            [c \in ColumnSet |->
                IF all[i][c].kind = "int" /\ numeric(c) /\ floats(c)
                THEN FloatCell(all[i][c].val) ELSE all[i][c]]]

(***************************************************************************)
(* Storage, CSV backend (main.py, lines 20-102)                            *)
(***************************************************************************)
NoFile == [exists |-> FALSE, rows |-> <<>>]
FileOf(frame) == [exists |-> TRUE, rows |-> to_csv(frame)]

\* Storage._init_csv: an absent file is created with the header alone
init_csv(f) == IF f.exists THEN f ELSE FileOf(<<>>)

\* Storage.load: read_csv, and an empty frame when the file is not found
load(f) == IF f.exists THEN read_csv(f) ELSE <<>>

\* Storage.append_row: load, concat, to_csv
append_row(f, newRow) == FileOf(concat(load(f), newRow))

\* Storage.overwrite: every column of self.columns, then to_csv
overwrite(f, frame) == FileOf(frame)

(***************************************************************************)
(* The script body of main.py: load and basic cleaning (lines 134-141)     *)
(***************************************************************************)
NumericColumns == {"Quarter", "Down", "Distance", "YardLine", "ResultYards"}

\* pd.to_numeric(errors="coerce") of one cell
to_numeric(cell) ==
    CASE cell.kind \in {"int", "float", "nan"} -> cell
      [] cell.kind = "bool" -> IntCell(IF cell.val THEN 1 ELSE 0)
      [] cell.kind = "str" ->
            IF IsIntText(cell.val) THEN IntCell(IntVal(cell.val))
            ELSE IF IsFloatText(cell.val) THEN FloatCell(FloatVal(cell.val))
            ELSE NaN

\* the texts that read as a true Success, line 141
SuccessTexts == { <<"t","r","u","e">>, <<"1">>, <<"y","e","s">>, <<"y">>, <<"t">> }

\* line 141 without .str.lower() (variant)
clean_success_nolower(cell) == BoolCell(AsText(cell) \in SuccessTexts)

\* line 141: astype(str).str.lower().isin([...])
clean_success(cell) == BoolCell(lower(AsText(cell)) \in SuccessTexts)

\* lines 136-141; an empty frame is left as it is
clean(frame) ==
    [i \in DOMAIN frame |->
        [c \in ColumnSet |->
            IF c \in NumericColumns THEN to_numeric(frame[i][c])
            ELSE IF c = "Success" THEN clean_success(frame[i][c])
            ELSE frame[i][c]]]

(***************************************************************************)
(* Means and their display                                                 *)
(***************************************************************************)
RECURSIVE Sum(_)
Sum(q) == IF q = <<>> THEN 0 ELSE Head(q) + Sum(Tail(q))
Abs(n) == IF n < 0 THEN -n ELSE n

NoAvg == [shown |-> FALSE, nan |-> FALSE, hundredths |-> 0]
\* Series.mean() of a numeric column, NaN skipped, then shown with two decimals by
\* Display (Format2f or NumpyRound2); the mean of nothing is NaN
MeanOf(cells, Display(_)) ==
    LET nums == SelectSeq(cells, LAMBDA c : c.kind \in {"int", "float"})
        vals == [i \in DOMAIN nums |-> nums[i].val]
        total == Sum(vals)
        shownAbs == Display(FDiv(Abs(total), Len(nums)))
    IN  IF nums = <<>> THEN [shown |-> TRUE, nan |-> TRUE, hundredths |-> 0]
        ELSE [shown |-> TRUE, nan |-> FALSE,
              hundredths |-> IF total < 0 THEN -shownAbs ELSE shownAbs]

\* format(x, ".2f"), in hundredths
Format2f(x) == IF x.m = <<>> THEN 0 ELSE RoundHalfEven(ExactMul(x, 100))
\* round(x, 2) of a numpy.float64, in hundredths
NumpyRound2(x) == RoundHalfEven(FMul(x, 100))

CountOf(frame, Test(_)) == Cardinality({ i \in DOMAIN frame : Test(frame[i]) })
Column(frame, c) == [i \in DOMAIN frame |-> frame[i][c]]

\* a frame as explosive_mask reads it: the play type as text, the yards as a
\* number; every comparison with NaN is false, which a number below every
\* threshold reproduces
Plain(frame, PlayTypeOf(_)) ==
    [i \in DOMAIN frame |->
        [PlayType    |-> PlayTypeOf(frame[i]),
         ResultYards |-> IF frame[i].ResultYards.kind = "nan" THEN -1000000
                         ELSE frame[i].ResultYards.val]]
CountTrue(mask) == Cardinality({ i \in DOMAIN mask : mask[i] })

(***************************************************************************)
(* The pages of main.py                                                    *)
(***************************************************************************)
All == <<"(","a","l","l",")">>
Offense == <<"O","f","f","e","n","s","e">>
Defense == <<"D","e","f","e","n","s","e">>

NoReport == [aggregated |-> FALSE, plays |-> 0, rates |-> <<>>, avg |-> NoAvg]
NoRow == [c \in ColumnSet |-> NaN]

\* df[col].dropna().astype(str).unique()
Options(frame, col) ==
    { AsText(frame[i][col]) : i \in { j \in DOMAIN frame : frame[j][col].kind # "nan" } }

\* Data Entry, lines 176-184: the row handed to append_row
EntryRow(form) ==
    [c \in ColumnSet |->
        CASE c = "Timestamp" -> StrCell(form.now)
          [] c = "Game" -> StrCell(form.game)
          [] c = "Opponent" -> StrCell(form.opponent)
          [] c = "TeamSide" -> StrCell(form.team_side)
          [] c = "Quarter" -> IntCell(form.quarter)
          [] c = "Down" -> IntCell(form.down)
          [] c = "Distance" -> FloatCell(form.distance)
          [] c = "YardLine" -> IntCell(form.yardline)
          [] c = "Hash" -> StrCell(form.hash_mark)
          [] c = "Formation" -> IntCell(form.formation)
          [] c = "PlayType" -> StrCell(form.play_type)
          [] c = "ResultYards" -> FloatCell(form.result_yards)
          [] c = "Success" ->
                BoolCell(compute_success(form.down, Yards(form.distance),
                                     Yards(form.result_yards)))
          [] c = "Notes" -> StrCell(strip(form.notes))]

\* Play Log, lines 205-213: the rows shown
play_log(frame, gsel, osel, ssel) ==
    SelectSeq(frame, LAMBDA r :
        /\ gsel = All \/ AsText(r.Game) = gsel
        /\ osel = All \/ AsText(r.Opponent) = osel
        /\ ssel = All \/ CellEq(r.TeamSide, StrCell(ssel)))

\* Analytics, lines 227-265: the metrics shown for a Game and Opponent selection;
\* rates in tenths of a percent
analytics(frame, game, opp) ==
    LET sub == SelectSeq(frame, LAMBDA r :
                   /\ game = All \/ AsText(r.Game) = game
                   /\ opp = All \/ AsText(r.Opponent) = opp)
        n == Len(sub)
        runs == CountOf(sub, LAMBDA r : is_runlike(AsText(r.PlayType)))
        succ == CountOf(sub, LAMBDA r : r.Success.val)
        expl == CountTrue(explosive_mask(Plain(sub, LAMBDA r : AsText(r.PlayType))))
        shown == IF n > 0
                 THEN {"Run %", "Pass %", "Success Rate", "Explosive Play Rate"}
                 ELSE {"Explosive Play Rate"}
    IN  [aggregated |-> TRUE,
         plays |-> n,
         rates |-> [m \in shown |->
                       CASE m = "Run %" -> Format1f(MeanPct(runs, n))
                         [] m = "Pass %" -> Format1f(MeanPct(n - runs, n))
                         [] m = "Success Rate" -> Format1f(MeanPct(succ, n))
                         [] m = "Explosive Play Rate" ->
                               IF n > 0 THEN Format1f(MeanPct(expl, n)) ELSE 0],
         avg |-> IF n > 0 THEN MeanOf(Column(sub, "ResultYards"), Format2f) ELSE NoAvg]

\* Formation Explorer, lines 289-310: the metrics of one side and formation
formation_explorer(frame, side, formation) ==
    LET sub == SelectSeq(frame, LAMBDA r :
                   CellEq(r.TeamSide, StrCell(side)) /\ AsText(r.Formation) = formation)
        n == Len(sub)
        runs == CountOf(sub, LAMBDA r : formation_runlike(AsText(r.PlayType)))
        succ == CountOf(sub, LAMBDA r : r.Success.val)
        expl == CountTrue(explosive_mask(
                    Plain(sub, LAMBDA r : formation_playtype(AsText(r.PlayType)))))
    IN  IF n = 0 THEN NoReport
        ELSE [aggregated |-> TRUE,
              plays |-> n,
              rates |-> [m \in {"Run %", "Pass %", "Success Rate %", "Explosive Rate %"} |->
                            CASE m = "Run %" -> NumpyRound1(MeanPct(runs, n))
                              [] m = "Pass %" -> NumpyRound1(MeanPct(n - runs, n))
                              [] m = "Success Rate %" -> NumpyRound1(MeanPct(succ, n))
                              [] m = "Explosive Rate %" -> NumpyRound1(MeanPct(expl, n))],
              avg |-> MeanOf(Column(sub, "ResultYards"), NumpyRound2)]

(***************************************************************************)
(* What is typed into the Data Entry form                                  *)
(***************************************************************************)
\* datetime.now().isoformat(timespec="seconds"): the clock stands still
Now == <<"2","0","2","4","-","0","9","-","0","1","T","1","9",":","0","0",":","0","0">>

\* Game, Opponent, Team Side and Notes: one form filled in, and one with the
\* fields a user leaves as they are or types as a number
TextInputs ==
    { [game |-> <<"G","1">>, opponent |-> <<"X">>, team_side |-> Offense,
       notes |-> <<" ","o","k">>],
      [game |-> <<"0","0","7">>, opponent |-> <<>>, team_side |-> Defense,
       notes |-> <<>>] }

\* Down, Distance, Play Type and Result: a success and a failure on early and
\* on late downs
Situations ==
    { [down |-> 1, distance |-> 10, play_type |-> Run,  result_yards |-> 5],
      [down |-> 2, distance |-> 5,  play_type |-> RPO,  result_yards |-> 2],
      [down |-> 3, distance |-> 10, play_type |-> Pass, result_yards |-> 5],
      [down |-> 4, distance |-> 10, play_type |-> Pass, result_yards |-> 15] }

EntryForms ==
    { [now |-> Now, game |-> t.game, opponent |-> t.opponent, team_side |-> t.team_side,
       quarter |-> 1, down |-> p.down, distance |-> p.distance, yardline |-> 50,
       hash_mark |-> <<"L","e","f","t">>, formation |-> 0, play_type |-> p.play_type,
       result_yards |-> p.result_yards, notes |-> t.notes]
      : t \in TextInputs, p \in Situations }

(***************************************************************************)
(* Script runs of main.py                                                  *)
(***************************************************************************)
StoreIdle ==
    /\ USE_GOOGLE_SHEETS = FALSE
    /\ file = NoFile
    /\ pc = "idle" /\ fatal = "none"
    /\ page = "none" /\ df = <<>> /\ wrote = "none" /\ row = NoRow /\ report = NoReport

config == <<USE_GOOGLE_SHEETS, fnVars, aggVars>>

\* storage = Storage(), line 104. With USE_GOOGLE_SHEETS the constructor calls
\* self._init_gsheets, which the class does not define: AttributeError
StartRun ==
    /\ pc = "idle"
    /\ IF USE_GOOGLE_SHEETS
       THEN fatal' = "AttributeError" /\ pc' = "idle" /\ file' = file
       ELSE fatal' = "none" /\ pc' = "constructed" /\ file' = init_csv(file)
    /\ page' = "none" /\ df' = <<>> /\ wrote' = "none" /\ row' = NoRow
    /\ report' = NoReport
    /\ UNCHANGED config

\* plays.csv is removed from outside the application
DeleteFile ==
    /\ ~USE_GOOGLE_SHEETS
    /\ file.exists
    /\ file' = NoFile
    /\ UNCHANGED <<pc, fatal, page, df, wrote, row, report, config>>

\* df = storage.load() and the basic cleaning, lines 134-141
Loaded == clean(load(file))

\* lines 134-141, then the page; the run ends
Rendered(name, shown) ==
    /\ pc = "constructed"
    /\ pc' = "idle"
    /\ page' = name
    /\ df' = Loaded
    /\ report' = shown
    /\ UNCHANGED <<fatal, config>>

DataEntryView ==
    /\ Rendered("Data Entry", NoReport)
    /\ UNCHANGED <<file, wrote, row>>

DataEntrySubmit ==
    \E form \in EntryForms :
        /\ Len(load(file)) < MaxRows
        /\ Rendered("Data Entry", NoReport)
        /\ file' = append_row(file, EntryRow(form))
        /\ wrote' = "append_row"
        /\ row' = EntryRow(form)

PlayLog ==
    \E ssel \in {All, Defense} :
        /\ Rendered("Play Log",
                    IF Loaded = <<>> THEN NoReport
                    ELSE [NoReport EXCEPT !.plays = Len(play_log(Loaded, All, All, ssel))])
        /\ UNCHANGED <<file, wrote, row>>

Analytics ==
    /\ Loaded # <<>>
    /\ \E game \in {All} \cup Options(Loaded, "Game"),
          opp \in {All} \cup Options(Loaded, "Opponent") :
          Rendered("Analytics", analytics(Loaded, game, opp))
    /\ UNCHANGED <<file, wrote, row>>

AnalyticsNoData ==
    /\ Loaded = <<>>
    /\ Rendered("Analytics", NoReport)
    /\ UNCHANGED <<file, wrote, row>>

FormationExplorer ==
    \E side \in {Offense, Defense} :
        LET options == Options(SelectSeq(Loaded, LAMBDA r : CellEq(r.TeamSide, StrCell(side))),
                               "Formation")
        IN  /\ \/ options = {} /\ Rendered("Formation Explorer", NoReport)
               \/ \E formation \in options :
                      Rendered("Formation Explorer",
                               formation_explorer(Loaded, side, formation))
            /\ UNCHANGED <<file, wrote, row>>

AdminView ==
    /\ Rendered("Admin", NoReport)
    /\ UNCHANGED <<file, wrote, row>>

\* Admin, lines 340-342: the Reset button
AdminReset ==
    /\ Rendered("Admin", NoReport)
    /\ file' = overwrite(file, <<>>)
    /\ wrote' = "overwrite"
    /\ row' = NoRow

Init ==
    /\ USE_GOOGLE_SHEETS \in BOOLEAN
    /\ file = NoFile
    /\ pc = "idle" /\ fatal = "none"
    /\ page = "none" /\ df = <<>> /\ wrote = "none" /\ row = NoRow /\ report = NoReport
    /\ FnIdle /\ AggIdle

Next ==
    \/ StartRun
    \/ DeleteFile
    \/ DataEntryView
    \/ DataEntrySubmit
    \/ PlayLog
    \/ Analytics
    \/ AnalyticsNoData
    \/ FormationExplorer
    \/ AdminView
    \/ AdminReset

Spec == Init /\ [][Next]_vars

(***************************************************************************)
(* Calls of the helper functions: the call is drawn first, then made       *)
(***************************************************************************)
FnCalls ==
    [fn : {"compute_success"},
     args : [down : Downs, distance : Distances, gained : Gains]]
    \cup [fn : {"explosive_mask"}, args : SeqsUpTo(Plays, MaxDf)]
    \cup [fn : {"parse_personnel"}, args : PersonnelTags]
    \cup [fn : {"classify"}, args : FormPlayTypes \cup OtherPlayTypes]

CallComputeSuccess ==
    /\ fn = "compute_success" /\ ret = Pending
    /\ ret' = Returned(compute_success(args.down, args.distance, args.gained))
    /\ UNCHANGED <<fn, args, aggVars, storeVars>>

CallExplosiveMask ==
    /\ fn = "explosive_mask" /\ ret = Pending
    /\ ret' = Returned([main      |-> explosive_mask(args),
                        personnel |-> personnel_explosive(args)])
    /\ UNCHANGED <<fn, args, aggVars, storeVars>>

CallParsePersonnel ==
    /\ fn = "parse_personnel" /\ ret = Pending
    /\ ret' = parse_personnel(args)
    /\ UNCHANGED <<fn, args, aggVars, storeVars>>

\* every place that decides run-like or pass-like, on the same play type
ClassifyPlayType ==
    /\ fn = "classify" /\ ret = Pending
    /\ ret' = Returned([analytics           |-> is_runlike(args),
                        explosive_mask      |-> is_runlike(args),
                        formation           |-> formation_runlike(args),
                        formation_explosive |-> formation_explosive_runlike(args),
                        personnel           |-> personnel_runlike(args)])
    /\ UNCHANGED <<fn, args, aggVars, storeVars>>

FnInit ==
    /\ \E c \in FnCalls : fn = c.fn /\ args = c.args
    /\ ret = Pending
    /\ AggIdle
    /\ StoreIdle
FnNext ==
    \/ CallComputeSuccess
    \/ CallExplosiveMask
    \/ CallParsePersonnel
    \/ ClassifyPlayType
SpecFn == FnInit /\ [][FnNext]_vars

(***************************************************************************)
(* A group of plays growing one play at a time, reported after each        *)
(***************************************************************************)
AddRunPlay ==
    /\ nRun + nPass < MaxGroup
    /\ nRun' = nRun + 1
    /\ nPass' = nPass
    /\ metrics' = RunPassReport(nRun', nPass')
    /\ UNCHANGED <<fnVars, storeVars>>

AddPassPlay ==
    /\ nRun + nPass < MaxGroup
    /\ nRun' = nRun
    /\ nPass' = nPass + 1
    /\ metrics' = RunPassReport(nRun', nPass')
    /\ UNCHANGED <<fnVars, storeVars>>

AggInit == FnIdle /\ AggIdle /\ StoreIdle
AggNext == AddRunPlay \/ AddPassPlay
SpecAgg == AggInit /\ [][AggNext]_vars

(***************************************************************************)
(* 2_Personnel_Explorer.py: the page, on the plays.csv it finds            *)
(***************************************************************************)
\* the header of the file: the columns of its rows, and self.columns for the
\* files that main.py leaves without rows
FileColumns(f) == IF f.rows = <<>> THEN ColumnSet ELSE DOMAIN f.rows[1]

\* lines 9-14: pd.read_csv("plays.csv") as it is, every column of the file, no
\* coercion; an empty frame when the file is not found
personnel_load(f) ==
    IF ~f.exists THEN <<>>
    ELSE LET column(c) == InferColumn([i \in DOMAIN f.rows |-> f.rows[i][c]])
         IN  [i \in DOMAIN f.rows |-> [c \in FileColumns(f) |-> column(c)[i]]]

\* line 12 or line 14: the columns of df
personnel_columns(f) ==
    IF f.exists THEN FileColumns(f)
    ELSE {"TeamSide", "Personnel", "PlayType", "Down", "Distance", "ResultYards",
          "Success"}

\* line 20 and line 22: the groupings offered for a side, "11" when there is none
personnel_options(frame, side) ==
    LET seen == Options(SelectSeq(frame, LAMBDA r : CellEq(r.TeamSide, StrCell(side))),
                        "Personnel")
    IN  IF seen = {} THEN {<<"1","1">>} ELSE seen

\* lines 20-129 for one side and grouping: the metrics shown, or the exception
\* that ends the run
personnel_explorer(frame, columns, side, personnel) ==
    IF "Personnel" \notin columns THEN Raised("KeyError")
    ELSE IF parse_personnel(personnel).raised # "none" THEN parse_personnel(personnel)
    ELSE
      LET sub == SelectSeq(frame, LAMBDA r :
                     CellEq(r.TeamSide, StrCell(side)) /\ AsText(r.Personnel) = personnel)
          n == Len(sub)
          runs == CountOf(sub, LAMBDA r : personnel_runlike(AsText(r.PlayType)))
          succ == CountOf(sub, LAMBDA r : r.Success.val = TRUE)
          expl == CountTrue(personnel_explosive(Plain(sub, LAMBDA r : AsText(r.PlayType))))
      IN  IF n = 0 THEN Returned(NoReport)
          \* lines 117-119: the mean of, and the comparison with 10 of, a column
          \* that read_csv left as text
          ELSE IF \E i \in DOMAIN sub : sub[i].ResultYards.kind = "str"
               THEN Raised("TypeError")
          ELSE Returned(
                 [aggregated |-> TRUE,
                  plays |-> n,
                  rates |-> [m \in {"Run %", "Pass %", "Success Rate %", "Explosive Rate %"} |->
                                CASE m = "Run %" -> NumpyRound1(MeanPct(runs, n))
                                  [] m = "Pass %" -> NumpyRound1(MeanPct(n - runs, n))
                                  [] m = "Success Rate %" -> NumpyRound1(MeanPct(succ, n))
                                  [] m = "Explosive Rate %" -> NumpyRound1(MeanPct(expl, n))],
                  avg |-> MeanOf(Column(sub, "ResultYards"), NumpyRound2)])

\* one run of the page's script; it constructs no Storage
PersonnelExplorer ==
    /\ pc = "idle"
    /\ \E side \in {Offense, Defense} :
          \E personnel \in personnel_options(
                               IF "Personnel" \in personnel_columns(file)
                               THEN personnel_load(file) ELSE <<>>, side) :
              LET shown == personnel_explorer(personnel_load(file),
                                              personnel_columns(file), side, personnel)
              IN  /\ page' = "Personnel Explorer"
                  /\ df' = personnel_load(file)
                  /\ fatal' = shown.raised
                  /\ report' = IF shown.raised = "none" THEN shown.value ELSE NoReport
    /\ UNCHANGED <<pc, file, wrote, row, config>>

(***************************************************************************)
(* The pages on a plays.csv that was edited or supplied from outside       *)
(***************************************************************************)
\* what a ResultYards and a Down field of such a file can hold
YardTexts == { <<"5",".","0">>, <<"1","2",".","0">>, <<"a","b","c">>, <<>> }
DownTexts == { <<"1">>, <<"x">> }

\* one line of the file: a play as main.py writes it, these two fields replaced
StoredLine(columns, yards, down) ==
    LET written == to_csv(<<EntryRow(CHOOSE form \in EntryForms :
                                        form.team_side = Offense /\ form.down = 1)>>)[1]
    IN  [c \in columns |->
            CASE c = "ResultYards" -> yards
              [] c = "Down" -> down
              [] c = "Personnel" -> <<"1","1">>
              [] OTHER -> written[c]]

\* the files of up to MaxRows lines, with and without a Personnel column
StoredFiles ==
    { [exists |-> TRUE, rows |-> rows] :
        rows \in UNION { SeqsUpTo({ StoredLine(columns, y, d) : y \in YardTexts,
                                                                  d \in DownTexts },
                                  MaxRows) \ {<<>>}
                         : columns \in {ColumnSet, ColumnSet \cup {"Personnel"}} } }

LoadInit ==
    /\ USE_GOOGLE_SHEETS = FALSE
    /\ file \in StoredFiles
    /\ pc = "idle" /\ fatal = "none"
    /\ page = "none" /\ df = <<>> /\ wrote = "none" /\ row = NoRow /\ report = NoReport
    /\ FnIdle /\ AggIdle

LoadNext ==
    \/ StartRun
    \/ PlayLog
    \/ Analytics
    \/ FormationExplorer
    \/ PersonnelExplorer

SpecLoad == LoadInit /\ [][LoadNext]_vars

(***************************************************************************)
(* Properties                                                              *)
(***************************************************************************)
Called(name) == fn = name /\ ret.raised # "pending"

\* C1: for a down in 1..4 and a distance > 0, compute_success returns true exactly
\* when: 1st down and gained >= 4; 2nd down and 2*gained >= distance (no floor, no
\* ceiling); 3rd or 4th down and gained >= distance.
C1_SuccessRule ==
    (Called("compute_success") /\ args.down \in 1..4 /\ args.distance > 0) =>
        /\ ret.raised = "none"
        /\ ret.value =
             CASE args.down = 1 -> args.gained >= Yards(4)
               [] args.down = 2 -> 2 * args.gained >= args.distance
               [] args.down \in {3, 4} -> args.gained >= args.distance
\* 2nd and 5 to go, 2.5 yards gained: a success, exactly at half the distance
C1_Witness ==
    /\ Called("compute_success")
    /\ args.down = 2 /\ args.distance = Yards(5) /\ 2 * args.gained = args.distance
    /\ ret.value = TRUE

\* C3: each record's explosive flag depends on that record alone: true exactly
\* when the play is run-like (Run, RPO) with ResultYards >= 10 or pass-like with
\* ResultYards >= 15, in explosive_mask and in the Personnel Explorer alike.
ExplosiveExpected(play) ==
    \/ play.PlayType \in {Run, RPO} /\ play.ResultYards >= 10
    \/ play.PlayType \notin {Run, RPO} /\ play.ResultYards >= 15
C3_ExplosiveRule ==
    Called("explosive_mask") =>
        /\ ret.raised = "none"
        /\ DOMAIN ret.value.main = DOMAIN args
        /\ DOMAIN ret.value.personnel = DOMAIN args
        /\ \A i \in DOMAIN args :
              /\ ret.value.main[i] = ExplosiveExpected(args[i])
              /\ ret.value.personnel[i] = ExplosiveExpected(args[i])
\* an RPO of 10 yards is explosive beside a pass of 14 yards that is not
C3_Witness ==
    /\ Called("explosive_mask")
    /\ args = <<[PlayType |-> RPO, ResultYards |-> 10],
                [PlayType |-> Pass, ResultYards |-> 14]>>
    /\ ret.value.main = <<TRUE, FALSE>>
    /\ ret.value.personnel = <<TRUE, FALSE>>

\* C4: the reported Run % and Pass % of a non-empty group sum to exactly 100.0 on
\* every page.
C4_RunPassSumTo100 ==
    nRun + nPass > 0 =>
        \A place \in {"analytics", "formation", "personnel"} :
            metrics[place].run + metrics[place].pass = 1000

\* C6: for a tag of one or two digits (trimmed), parse_personnel returns rb = the
\* first digit, te = the second digit (0 for a single digit) and
\* wr = max(0, 5 - (rb + te)): wr is never negative and rb + te + wr = 5 whenever
\* rb + te <= 5.
IsPersonnelTag(tag) ==
    LET s == strip(tag)
    IN  Len(s) \in {1, 2} /\ \A i \in DOMAIN s : IsDigit(s[i])
C6_ParsePersonnel ==
    (Called("parse_personnel") /\ IsPersonnelTag(args)) =>
        LET s  == strip(args)
            rb == DigitVal(s[1])
            te == IF Len(s) = 2 THEN DigitVal(s[2]) ELSE 0
        IN  /\ ret.raised = "none"
            /\ ret.value.rb = rb
            /\ ret.value.te = te
            /\ ret.value.wr = (IF rb + te <= 5 THEN 5 - (rb + te) ELSE 0)
            /\ ret.value.wr >= 0
            /\ rb + te <= 5 => ret.value.rb + ret.value.te + ret.value.wr = 5
\* a trimmed tag whose digits sum to more than 5: the clamp acts
C6_Witness ==
    /\ Called("parse_personnel")
    /\ args = <<"4", "2", " ">>
    /\ ret.raised = "none"
    /\ ret.value = [rb |-> 4, te |-> 2, wr |-> 0]

\* C9: every place that classifies a play type gives the same answer: run-like
\* exactly when the lower-cased play type contains "run" or "rpo" anywhere.
ContainsRunOrRpo(playType) ==
    \E i \in DOMAIN playType :
        /\ i + 2 <= Len(playType)
        /\ <<lower_char(playType[i]), lower_char(playType[i + 1]),
             lower_char(playType[i + 2])>> \in {<<"r","u","n">>, <<"r","p","o">>}
C9_SameClassification ==
    Called("classify") =>
        \A place \in DOMAIN ret.value : ret.value[place] = ContainsRunOrRpo(args)

\* C10: with a down outside 1..4 or a distance <= 0, compute_success fails with a
\* validation failure and returns no boolean.
C10_FailsFast ==
    (Called("compute_success") /\ (args.down \notin 1..4 \/ args.distance <= 0)) =>
        ret.raised # "none"

\* a page run: the script body from storage.load() to the end of the page
PageRun == pc = "constructed" /\ pc' = "idle"

\* C2: after any Data Entry submissions and Admin resets, every record that is
\* loaded and cleaned has a Success equal to compute_success recomputed from its
\* own Down, Distance and ResultYards.
C2_SuccessConsistent ==
    \A i \in DOMAIN df :
        /\ df[i].Down.kind = "int"
        /\ df[i].Distance.kind \in {"int", "float"}
        /\ df[i].ResultYards.kind \in {"int", "float"}
        /\ df[i].Success =
               BoolCell(compute_success(df[i].Down.val, Yards(df[i].Distance.val),
                                        Yards(df[i].ResultYards.val)))
\* two plays entered, written, read back and cleaned: a success and a failure
C2_Witness ==
    /\ page # "none"
    /\ Len(df) = 2
    /\ df[1].Success = BoolCell(TRUE)
    /\ df[2].Success = BoolCell(FALSE)
    /\ df[1].Down.val = 1 /\ df[2].Down.val = 3

\* C5: when the filtered set handed to the aggregation has no record, no rate
\* metric is reported as a number: none as 0%.
C5_NoDataSentinel ==
    (report.aggregated /\ report.plays = 0) => DOMAIN report.rates = {}

\* C7: a failure of the store during load never ends as a fatal error: load of a
\* missing file is empty, and an append_row of r after an empty load leaves a
\* store whose load returns exactly [r].
C7_LoadFailureRecovers ==
    [][/\ fatal' = "none"
       /\ ~file'.exists => load(file') = <<>>
       /\ (PageRun /\ wrote' = "append_row" /\ load(file) = <<>>) =>
              DfEq(load(file'), <<row'>>)]_vars

\* C8: append_row(r) then load returns the records stored before, every field
\* unchanged and in order, followed by r; overwrite(c) then load returns the
\* records of c; no other page changes the stored collection.
C8_StoredRecordsImmutable ==
    [][PageRun =>
          CASE wrote' = "append_row" -> DfEq(load(file'), load(file) \o <<row'>>)
            [] wrote' = "overwrite" -> load(file') = <<>>
            [] OTHER -> file' = file]_vars

\* C11: a loaded record whose numeric field holds non-numeric text gets the
\* missing marker there, never 0, and on every page that reports an average of
\* yards the run does not fail and the average is the mean of ResultYards over
\* the records of the group whose ResultYards is numeric.
IsNumberText(t) == IsIntText(t) \/ IsFloatText(t)
NumberVal(t) == IF IsIntText(t) THEN IntVal(t) ELSE FloatVal(t)
Malformed(t) == t \notin NAValues /\ ~IsNumberText(t)
\* the mean, to the nearest hundredth, of the numeric ResultYards of the lines
IsMeanOfNumeric(avg, lines) ==
    LET numeric == SelectSeq(lines, LAMBDA l : IsNumberText(l.ResultYards))
        total == Sum([i \in DOMAIN numeric |-> NumberVal(numeric[i].ResultYards)])
        n == Len(numeric)
    IN  /\ avg.shown
        /\ avg.nan = (n = 0)
        /\ n > 0 => 2 * Abs(avg.hundredths * n - 100 * total) <= n
HoldsMalformed(f) ==
    \E i \in DOMAIN f.rows : \E c \in NumericColumns : Malformed(f.rows[i][c])
C11_MalformedNumericMissing ==
    (/\ page \in {"Analytics", "Formation Explorer", "Personnel Explorer"}
     /\ HoldsMalformed(file)) =>
        /\ fatal = "none"
        /\ Len(df) = Len(file.rows)
        /\ \A i \in DOMAIN df : \A c \in NumericColumns :
              Malformed(file.rows[i][c]) => df[i][c] = NaN
        /\ report.aggregated => IsMeanOfNumeric(report.avg, file.rows)

====
